---- MODULE Spec2Model ----
(***************************************************************************)
(* State-machine model of class Device (src/src/device.ts): one SSH       *)
(* session to an ev3dev device, its connect()/disconnect() lifecycle, the  *)
(* SFTP backed filesystem adapter and the channel operations.              *)
(*                                                                         *)
(* The ssh2 client is the environment.  Its socket is modelled by `sock`:  *)
(*   closed      no socket (before connect(), after 'close')               *)
(*   connecting  client.connect() called, handshake in progress            *)
(*   ready       'ready' emitted                                           *)
(*   ending      client.end() called or 'error' emitted; 'close' follows   *)
(* The client emits 'ready', 'error' and 'close'; a callback handed to the *)
(* client or to the SFTP wrapper can succeed only while the socket is      *)
(* ready and can fail at any time.  A promise continuation runs as a       *)
(* microtask right after the callback that settles the promise, so each    *)
(* callback and the continuation it wakes form one action.                 *)
(***************************************************************************)
EXTENDS Naturals, Sequences, FiniteSets, TLC

\* Number of connect() calls made over a run.
MaxAttempts == 2
\* Number of disconnect() calls the caller makes over a run.
MaxDisconnects == 3

\* Errors the environment can raise, by the step that raises them.
ClientErrors == {"E_HANDSHAKE", "E_TIMEOUT"}
SftpErrors == {"E_SFTP"}
StatErrors == {"E_STAT"}

\* The filesystem adapter operations and the channel operations.
FsOps == {"stat", "ls", "mkdir", "rmdir", "rm", "chmod", "get", "put"}
ChanOps == {"exec", "createExecObservable", "shell", "brickd"}

VARIABLES
    sftp,            \* this.sftp is defined
    homeAttr,        \* this._homeDirectoryAttr: 0 undefined, n snapshot of the n-th connect()
    isConnecting,    \* this._isConnecting
    isConnected,     \* this._isConnected
    sock,            \* state of the ssh2 client's socket
    pc,              \* position of the connect() call in flight
    kaTimer,         \* the keepalive-reset interval of getSftp() is running
    connectResult,   \* settlement of the promise returned by the last connect()
    connectErr,      \* the value connect() rejected with
    origErr,         \* the error the environment raised in this attempt
    settles,         \* how often the promise of the last connect() was settled
    attempts,        \* connect() calls so far
    discs,           \* disconnect() calls made by the caller so far
    willCount,       \* onWillConnect firings since the last connect()
    connCount,       \* onDidConnect firings since the last connect()
    discCount,       \* onDidDisconnect firings since the last connect()
    userDisc,        \* disconnect() calls made by the caller since the last connect()
    call             \* the caller's last filesystem or channel call: its method,
                     \* whether the Device was without SFTP session (filesystem)
                     \* or the socket not ready (channel) when it was made,
                     \* whether it went out to the SFTP wrapper or the client,
                     \* its outcome, and the connection the request is on
VARIABLES
    tree,            \* the remote file tree: the type of every node but the root
    tree0,           \* the remote file tree at the start of the run
    mk,              \* the mkdir_p() calls, one per caller
    rm,              \* the rm_rf() call
    lastOp,          \* the recursive operation called last
    again,           \* the mkdir_p() call repeats the one that just resolved
    runs,            \* recursive operations called so far
    xfer,            \* the get()/put() transfer with a progress callback
    kb               \* the keyboard-interactive challenge being answered

session == <<sftp, homeAttr, isConnecting, isConnected, sock, pc, kaTimer>>
promise == <<connectResult, connectErr, origErr, settles>>
events == <<willCount, connCount, discCount>>
lifeVars == <<session, promise, events, attempts, discs, userDisc, call>>
treeVars == <<tree, tree0, mk, rm, lastOp, again, runs>>
opVars == <<treeVars, xfer, kb>>
vars == <<lifeVars, opVars>>

----------------------------------------------------------------------------
\* Remote paths.  A node of the remote tree is the sequence of its names, the
\* root the empty sequence.  A path string given to mkdir_p() is modelled by
\* the result of dirPath.split('/'): "/a/b" is <<"", "a", "b">>, "/a/" is
\* <<"", "a", "">>, "a/b" is <<"a", "b">>, "" is <<"">>.

\* Depth of the remote tree and number of names in a path string.
MaxDepth == 3
\* Number of recursive operations called over a run.
MaxRuns == 2
\* Size of the largest file transferred, in bytes.
MaxBytes == 8
\* Number of prompts of the longest keyboard-interactive challenge.
MaxPrompts == 3

Names == {"a", "b"}
PathSegs == {"a", ""}
Procs == {1, 2}

SeqsUpTo(S, n) == UNION {[1..k -> S] : k \in 0..n}
Nodes == SeqsUpTo(Names, MaxDepth) \ {<<>>}
Types == {"none", "dir", "file", "link"}

\* The type of node n in tree t; the root is a directory.
TypeOf(t, n) ==
    IF n = <<>> THEN "dir"
    ELSE IF n \in Nodes THEN t[n]
    ELSE "none"

Parent(n) == SubSeq(n, 1, Len(n) - 1)
Children(t, n) == {c \in Nodes : Len(c) = Len(n) + 1 /\ Parent(c) = n /\ t[c] # "none"}
IsUnder(c, n) == Len(c) >= Len(n) /\ SubSeq(c, 1, Len(n)) = n

\* The errors a promise rejects with: the error code and the path it names.
Err(code, n) == [code |-> code, node |-> n]
NoErr == Err("none", <<>>)

\* No recursive operation called yet.
IdleMk ==
    [pc |-> "idle", dirPath |-> <<>>, names |-> <<>>, part |-> <<>>,
     result |-> "none", err |-> NoErr, statLog |-> <<>>, mkdirLog |-> <<>>,
     noSuch |-> <<>>, statErr |-> NoErr]
IdleRm ==
    [pc |-> "idle", path |-> <<>>, cur |-> <<>>, stack |-> <<>>,
     result |-> "none", err |-> NoErr, log |-> <<>>, firstErr |-> NoErr]
IdleXfer ==
    [pc |-> "idle", op |-> "none", total |-> 0, transferred |-> 0,
     hasCallback |-> FALSE, steps |-> <<>>, reports |-> <<>>, result |-> "none"]
IdleKb ==
    [pc |-> "idle", prompts |-> <<>>, shown |-> <<>>, choices |-> <<>>,
     answers |-> <<>>, finishCalls |-> 0, finishArg |-> <<>>]

\* No recursive operation, transfer or challenge is running.
OpsIdle ==
    /\ tree = [n \in Nodes |-> "none"]
    /\ tree0 = tree
    /\ mk = [p \in Procs |-> IdleMk]
    /\ rm = IdleRm
    /\ lastOp = "none"
    /\ again = FALSE
    /\ runs = 0
    /\ xfer = IdleXfer
    /\ kb = IdleKb

\* No call made yet.
NoCall == [op |-> "none", idle |-> FALSE, issued |-> FALSE, outcome |-> "none",
           conn |-> 0]

Init ==
    /\ sftp = FALSE
    /\ homeAttr = 0
    /\ isConnecting = FALSE
    /\ isConnected = FALSE
    /\ sock = "closed"
    /\ pc = "idle"
    /\ kaTimer = FALSE
    /\ connectResult = "none"
    /\ connectErr = "none"
    /\ origErr = "none"
    /\ settles = 0
    /\ attempts = 0
    /\ discs = 0
    /\ willCount = 0
    /\ connCount = 0
    /\ discCount = 0
    /\ userDisc = 0
    /\ call = NoCall
    /\ OpsIdle

----------------------------------------------------------------------------
\* EventEmitter.fire(): one more firing of the event.
Fire(n) == n + 1

\* client.end(): an open socket starts closing, otherwise nothing happens.
ClientEnd(s) == IF s \in {"connecting", "ready"} THEN "ending" ELSE s

\* The body of disconnect(), called with the socket in state s.
\* _homeDirectoryAttr is not assigned by disconnect().
disconnect(s) ==
    /\ isConnected' = FALSE
    /\ sftp' = FALSE
    /\ sock' = ClientEnd(s)
    /\ discCount' = Fire(discCount)
    /\ UNCHANGED homeAttr

\* The getter homeDirectoryAttr: throws 'Not connected' when the snapshot
\* is undefined, else returns the snapshot.
homeDirectoryAttr == IF homeAttr = 0 THEN "NotConnected" ELSE "attributes"

\* The state the public getters show.
State ==
    IF isConnected THEN "connected"
    ELSE IF isConnecting THEN "connecting"
    ELSE "idle"

----------------------------------------------------------------------------
\* connect() up to its first await: sets _isConnecting, fires onWillConnect,
\* and connectClient() registers the listeners and calls client.connect().
\* The caller keeps connect() single-flight and calls it on a closed client.
Connect ==
    /\ attempts < MaxAttempts
    /\ pc = "idle"
    /\ sock = "closed"
    /\ attempts' = attempts + 1
    /\ isConnecting' = TRUE
    /\ willCount' = Fire(0)
    /\ connCount' = 0
    /\ discCount' = 0
    /\ userDisc' = 0
    /\ sock' = "connecting"
    /\ pc' = "awaitClient"
    /\ connectResult' = "pending"
    /\ connectErr' = "none"
    /\ origErr' = "none"
    /\ settles' = 0
    /\ UNCHANGED <<sftp, homeAttr, isConnected, kaTimer, discs, call>>
    /\ UNCHANGED opVars

\* 'ready': connectClient() resolves; connect() goes on into getSftp(), which
\* starts the keepalive-reset interval and calls client.sftp().
ClientReady ==
    /\ sock = "connecting"
    /\ pc = "awaitClient"
    /\ sock' = "ready"
    /\ kaTimer' = TRUE
    /\ pc' = "awaitSftp"
    /\ UNCHANGED <<sftp, homeAttr, isConnecting, isConnected, promise, events,
                   attempts, discs, userDisc, call>>
    /\ UNCHANGED opVars

\* 'error' (handshake failure, timeout, or a later transport error): the
\* client closes the socket afterwards.  While connectClient() is pending its
\* promise rejects and, the await being outside the try block, connect()
\* rejects with the same error and does nothing else.
ClientError(e) ==
    /\ sock \in {"connecting", "ready"}
    /\ sock' = "ending"
    /\ IF pc = "awaitClient"
       THEN /\ pc' = "idle"
            /\ connectResult' = "rejected"
            /\ connectErr' = e
            /\ origErr' = e
            /\ settles' = settles + 1
       ELSE UNCHANGED <<pc, promise>>
    /\ UNCHANGED <<sftp, homeAttr, isConnecting, isConnected, kaTimer, events,
                   attempts, discs, userDisc, call>>
    /\ UNCHANGED opVars

\* 'close' with no handler registered for it: the socket is gone and the Device
\* does nothing.
ClientClose_NoHandler ==
    /\ sock # "closed"
    /\ sock' = "closed"
    /\ UNCHANGED <<sftp, homeAttr, isConnecting, isConnected, pc, kaTimer, promise,
                   events, attempts, discs, userDisc, call>>
    /\ UNCHANGED opVars

\* 'close': the socket is gone and the handler calls disconnect().
ClientClose ==
    /\ sock # "closed"
    /\ disconnect("closed")
    /\ UNCHANGED <<isConnecting, pc, kaTimer, promise, willCount, connCount,
                   attempts, discs, userDisc, call>>
    /\ UNCHANGED opVars

\* The caller calls disconnect().
Disconnect ==
    /\ discs < MaxDisconnects
    /\ discs' = discs + 1
    /\ userDisc' = userDisc + 1
    /\ disconnect(sock)
    /\ UNCHANGED <<isConnecting, pc, kaTimer, promise, willCount, connCount,
                   attempts, call>>
    /\ UNCHANGED opVars

\* The catch block of connect(): clears _isConnecting, calls disconnect() and
\* rethrows the error it caught.
ConnectCatch(e) ==
    /\ isConnecting' = FALSE
    /\ disconnect(sock)
    /\ pc' = "idle"
    /\ connectResult' = "rejected"
    /\ connectErr' = e
    /\ origErr' = e
    /\ settles' = settles + 1

\* The callback of client.sftp() arrives with the SFTP wrapper: the interval
\* is cleared, getSftp() resolves, connect() stores the wrapper and calls
\* stat(homeDirectoryPath), which finds this.sftp set and issues sftp.stat().
SftpOpened ==
    /\ pc = "awaitSftp"
    /\ sock = "ready"
    /\ kaTimer' = FALSE
    /\ sftp' = TRUE
    /\ pc' = "awaitStat"
    /\ UNCHANGED <<homeAttr, isConnecting, isConnected, sock, promise, events,
                   attempts, discs, userDisc, call>>
    /\ UNCHANGED opVars

\* The callback of client.sftp() arrives with an error: the interval is
\* cleared, getSftp() rejects and connect() runs its catch block.
SftpFailed(e) ==
    /\ pc = "awaitSftp"
    /\ kaTimer' = FALSE
    /\ ConnectCatch(e)
    /\ UNCHANGED <<willCount, connCount, attempts, discs, userDisc, call>>
    /\ UNCHANGED opVars

\* The callback of sftp.stat() arrives with the attributes of the home
\* directory: connect() stores them, becomes connected, fires onDidConnect
\* and resolves.
StatOk ==
    /\ pc = "awaitStat"
    /\ sock = "ready"
    /\ homeAttr' = attempts
    /\ isConnecting' = FALSE
    /\ isConnected' = TRUE
    /\ connCount' = Fire(connCount)
    /\ pc' = "idle"
    /\ connectResult' = "resolved"
    /\ settles' = settles + 1
    /\ UNCHANGED <<sftp, sock, kaTimer, connectErr, origErr, willCount, discCount,
                   attempts, discs, userDisc, call>>
    /\ UNCHANGED opVars

\* The callback of sftp.stat() arrives with an error: stat() rejects and
\* connect() runs its catch block.
StatFailed(e) ==
    /\ pc = "awaitStat"
    /\ ConnectCatch(e)
    /\ UNCHANGED <<kaTimer, willCount, connCount, attempts, discs, userDisc,
                   call>>
    /\ UNCHANGED opVars

----------------------------------------------------------------------------
\* The guard with chmod() left without its check of this.sftp.
FsGuard_ChmodUnguarded(op, present) ==
    IF ~present /\ op # "chmod" THEN "NotConnected" ELSE "issue"

\* The first statement of every filesystem adapter method (stat, ls, mkdir,
\* rmdir, rm, chmod, get, put): without this.sftp the promise rejects with
\* Error('Not connected') and the method returns, else the SFTP request is
\* issued.
FsGuard(op, present) == IF ~present THEN "NotConnected" ELSE "issue"

\* The callback of a filesystem adapter method: an error rejects the promise,
\* no error resolves it.
FsSettle(reply) == IF reply = "error" THEN "rejected" ELSE "resolved"

\* The caller calls a filesystem adapter method.
FsCall(op) ==
    /\ call.outcome # "pending"
    /\ IF FsGuard(op, sftp) = "NotConnected"
       THEN call' = [op |-> op, idle |-> ~sftp, issued |-> FALSE,
                     outcome |-> "NotConnected", conn |-> 0]
       ELSE call' = [op |-> op, idle |-> ~sftp, issued |-> TRUE,
                     outcome |-> "pending", conn |-> attempts]
    /\ UNCHANGED <<session, promise, events, attempts, discs, userDisc>>
    /\ UNCHANGED opVars

\* The SFTP wrapper calls back: with a result while the connection the
\* request went out on is still ready, with an error at any time.
FsCallback(reply) ==
    /\ call.op \in FsOps
    /\ call.outcome = "pending"
    /\ reply = "ok" => (sock = "ready" /\ call.conn = attempts)
    /\ call' = [call EXCEPT !.outcome = FsSettle(reply)]
    /\ UNCHANGED <<session, promise, events, attempts, discs, userDisc>>
    /\ UNCHANGED opVars

\* The callback of a channel method with its err argument ignored: only a
\* throw of the client rejects the promise.
ChanSettle_ErrIgnored(reply) == IF reply = "throw" THEN "rejected" ELSE "resolved"

\* What the promise of a channel method does with the client's answer: a
\* throw inside the executor and an error passed to the callback reject it,
\* a channel resolves it.
ChanSettle(reply) == IF reply = "channel" THEN "resolved" ELSE "rejected"

\* The caller calls exec(), createExecObservable() (through exec()), shell()
\* or brickd() (through forwardOut()): each hands the call to the ssh2 client
\* without looking at the state of the Device.  A client whose socket is not
\* ready refuses the call, by throwing or by an error passed to the callback.
ChanCall(op) ==
    /\ call.outcome # "pending"
    /\ \/ /\ sock # "ready"
          /\ call' = [op |-> op, idle |-> TRUE, issued |-> TRUE,
                      outcome |-> ChanSettle("throw"), conn |-> 0]
       \/ call' = [op |-> op, idle |-> sock # "ready", issued |-> TRUE,
                   outcome |-> "pending",
                   conn |-> IF sock = "ready" THEN attempts ELSE 0]
    /\ UNCHANGED <<session, promise, events, attempts, discs, userDisc>>
    /\ UNCHANGED opVars

\* The client calls back: with a channel while the connection the call was
\* made on is still ready, with an error at any time.
ChanCallback(reply) ==
    /\ call.op \in ChanOps
    /\ call.outcome = "pending"
    /\ reply = "channel" => (sock = "ready" /\ call.conn = attempts)
    /\ call' = [call EXCEPT !.outcome = ChanSettle(reply)]
    /\ UNCHANGED <<session, promise, events, attempts, discs, userDisc>>
    /\ UNCHANGED opVars

Next ==
    \/ Connect
    \/ ClientReady
    \/ \E e \in ClientErrors : ClientError(e)
    \/ ClientClose
    \/ Disconnect
    \/ SftpOpened
    \/ \E e \in SftpErrors : SftpFailed(e)
    \/ StatOk
    \/ \E e \in StatErrors : StatFailed(e)
    \/ \E op \in FsOps : FsCall(op)
    \/ \E r \in {"ok", "error"} : FsCallback(r)
    \/ \E op \in ChanOps : ChanCall(op)
    \/ \E r \in {"channel", "error"} : ChanCallback(r)

Spec == Init /\ [][Next]_vars

\* The handshake ends: the client emits 'ready' or 'error', or the socket
\* closes.  A socket that is ending closes.  The callbacks of client.sftp()
\* and of the sftp.stat() of connect() arrive.
Handshake ==
    /\ sock = "connecting"
    /\ (ClientReady \/ (\E e \in ClientErrors : ClientError(e)) \/ ClientClose)
Closing == sock = "ending" /\ ClientClose
SftpCallback == SftpOpened \/ \E e \in SftpErrors : SftpFailed(e)
StatCallback == StatOk \/ \E e \in StatErrors : StatFailed(e)

FairSpec ==
    /\ Spec
    /\ WF_vars(Handshake)
    /\ WF_vars(Closing)
    /\ WF_vars(SftpCallback)
    /\ WF_vars(StatCallback)

----------------------------------------------------------------------------
\* The recursive operations on the remote tree.

\* The tree holding the nodes of S, a set of <<node, type>> pairs.
TreeOf(S) ==
    [n \in Nodes |-> IF \E e \in S : e[1] = n
                     THEN (CHOOSE e \in S : e[1] = n)[2]
                     ELSE "none"]

\* The remote trees a run starts from.  A link is a symbolic link to a regular
\* file outside the tree.
InitialTrees ==
    { TreeOf({}),
      TreeOf({<< <<"a">>, "dir" >>}),
      TreeOf({<< <<"a">>, "file" >>}),
      TreeOf({<< <<"a">>, "dir" >>, << <<"a", "a">>, "link" >>}),
      TreeOf({<< <<"a">>, "dir" >>, << <<"a", "a">>, "dir" >>}),
      TreeOf({<< <<"a">>, "dir" >>, << <<"a", "a">>, "file" >>,
              << <<"a", "b">>, "dir" >>, << <<"a", "b", "a">>, "file" >>,
              << <<"a", "b", "b">>, "link" >>}) }

\* The path strings given to mkdir_p(), as dirPath.split('/') sees them.
DirPaths == {d \in SeqsUpTo(PathSegs, MaxDepth + 1) : Len(d) >= 1}

\* The errors a request fails with whatever the tree holds.
FsFaults == {"PERMISSION_DENIED", "FAILURE"}

\* mkdir_p() without its check of the path.
IsAbsolute_NoCheck(d) == TRUE

\* path.posix.isAbsolute(dirPath): the string starts with '/', so that
\* split('/') gives an empty first element and at least one more.
IsAbsolute(d) == Len(d) >= 2 /\ d[1] = ""

\* The split without the shift.
Shift_None(d) == d

\* names.shift() after the split: the empty first element is dropped.
Shift(d) == Tail(d)

\* path.posix.join(part, name): an empty name adds nothing to the path and a
\* trailing or doubled slash is normalised away.
Join(n, name) == IF name = "" THEN n ELSE Append(n, name)

\* What sftp.stat() finds: the type of the node, or NO_SUCH_FILE.
RemoteStat(t, n) ==
    IF TypeOf(t, n) = "none" THEN Err("NO_SUCH_FILE", n) ELSE NoErr

\* What sftp.mkdir() does: the directory is made when its parent is a
\* directory and nothing has its name, else the server answers FAILURE.
RemoteMkdirOk(t, n) ==
    n \in Nodes /\ TypeOf(t, n) = "none" /\ TypeOf(t, Parent(n)) = "dir"

\* The check of the attributes with the test left out.
StatThrows_NoCheck(type) == FALSE

\* if (!stat.isDirectory()) throw ...
StatThrows(type) == type # "dir"

\* The catch block rethrowing nothing.
CatchRethrows_Never(e) == FALSE

\* if (err.code !== NO_SUCH_FILE) throw err: an error without a code, such
\* as Error('Not connected') or the one thrown in the try block, is rethrown.
CatchRethrows(e) == e.code # "NO_SUCH_FILE"

\* mkdir_p() throws: its promise rejects with e.
MkReject(m, e) == [m EXCEPT !.pc = "done", !.result = "rejected", !.err = e]

\* The catch block of the loop, entered with error e: another error than
\* NO_SUCH_FILE is rethrown, else this.mkdir(part) is called, whose guard
\* rejects without this.sftp.
MkCatch(m, e, present) ==
    IF CatchRethrows(e) THEN MkReject(m, e)
    ELSE LET c == [m EXCEPT !.mkdirLog = Append(@, m.part)]
         IN  IF FsGuard("mkdir", present) = "NotConnected"
             THEN MkReject(c, Err("NOT_CONNECTED", m.part))
             ELSE [c EXCEPT !.pc = "awaitMkdir"]

\* this.stat(part) rejected with e: the catch block runs.
MkStatFailed(m, e, present) ==
    MkCatch([m EXCEPT !.statErr = IF e.code = "NO_SUCH_FILE" THEN @ ELSE e,
                      !.noSuch = IF e.code = "NO_SUCH_FILE"
                                 THEN Append(@, m.part) ELSE @],
            e, present)

\* The head of the while loop: without names left mkdir_p() resolves, else
\* the next name is joined to part and this.stat(part) is called, whose guard
\* rejects without this.sftp.
MkLoop(m, present) ==
    IF m.names = <<>>
    THEN [m EXCEPT !.pc = "done", !.result = "resolved"]
    ELSE LET part == Join(m.part, Head(m.names))
             v == [m EXCEPT !.part = part, !.names = Tail(@),
                            !.statLog = Append(@, part)]
         IN  IF FsGuard("stat", present) = "NotConnected"
             THEN MkStatFailed(v, Err("NOT_CONNECTED", part), present)
             ELSE [v EXCEPT !.pc = "awaitStat"]

\* this.stat(part) resolved with a mkdir issued whatever the attributes say.
MkOnStat_AlwaysMkdir(m, type, present) ==
    MkCatch(m, Err("NO_SUCH_FILE", m.part), present)

\* this.stat(part) resolved with attributes of the given type: a node that
\* is no directory makes the try block throw, which the catch block gets;
\* a directory lets the loop go on.
MkOnStat(m, type, present) ==
    IF StatThrows(type)
    THEN MkCatch(m, Err("NOT_A_DIRECTORY", m.part), present)
    ELSE MkLoop(m, present)

\* No other recursive operation is running.
NoneRunning ==
    /\ \A p \in Procs : mk[p].pc \in {"idle", "done"}
    /\ rm.pc \in {"idle", "done"}

\* The caller calls mkdir_p(dirPath): a path that is not absolute rejects,
\* else the loop starts from part = '/'.
MkdirpCall(p, d) ==
    /\ runs < MaxRuns
    /\ NoneRunning
    /\ runs' = runs + 1
    /\ lastOp' = "mkdir_p"
    /\ again' = (lastOp = "mkdir_p" /\ mk[p].result = "resolved"
                     /\ mk[p].dirPath = d)
    /\ tree0' = tree
    /\ LET m == [IdleMk EXCEPT !.dirPath = d]
       IN  mk' = [mk EXCEPT ![p] =
                     IF ~IsAbsolute(d)
                     THEN MkReject(m, Err("NOT_ABSOLUTE", <<>>))
                     ELSE MkLoop([m EXCEPT !.names = Shift(d)], sftp)]
    /\ rm' = IdleRm
    /\ UNCHANGED <<lifeVars, tree, xfer, kb>>

\* The callback of the sftp.stat() of mkdir_p(): with what the tree holds
\* while the connection is ready, with an error at any time.
MkdirpStatReply(p, r) ==
    /\ mk[p].pc = "awaitStat"
    /\ r = "tree" => sock = "ready"
    /\ LET m == mk[p]
           e == IF r = "tree" THEN RemoteStat(tree, m.part) ELSE Err(r, m.part)
       IN  mk' = [mk EXCEPT ![p] =
                     IF e = NoErr
                     THEN MkOnStat(m, TypeOf(tree, m.part), sftp)
                     ELSE MkStatFailed(m, e, sftp)]
    /\ UNCHANGED <<lifeVars, tree, tree0, rm, lastOp, again, runs, xfer, kb>>

\* The callback of the sftp.mkdir() of mkdir_p(): an error rejects mkdir_p(),
\* else the loop goes on.
MkdirpMkdirReply(p, r) ==
    /\ mk[p].pc = "awaitMkdir"
    /\ r = "tree" => sock = "ready"
    /\ LET m == mk[p]
       IN  IF r = "tree" /\ RemoteMkdirOk(tree, m.part)
           THEN /\ tree' = [tree EXCEPT ![m.part] = "dir"]
                /\ mk' = [mk EXCEPT ![p] = MkLoop(m, sftp)]
           ELSE /\ tree' = tree
                /\ mk' = [mk EXCEPT ![p] =
                              MkReject(m, Err(IF r = "tree" THEN "FAILURE" ELSE r,
                                              m.part))]
    /\ UNCHANGED <<lifeVars, tree0, rm, lastOp, again, runs, xfer, kb>>

\* What sftp.unlink() does: a file or a symbolic link is removed, else the
\* server answers NO_SUCH_FILE or FAILURE.
RemoteUnlinkOk(t, n) == TypeOf(t, n) \in {"file", "link"}

\* What sftp.rmdir() does: an empty directory is removed, else the server
\* answers NO_SUCH_FILE or FAILURE.
RemoteRmdirOk(t, n) == n \in Nodes /\ TypeOf(t, n) = "dir" /\ Children(t, n) = {}

\* The code the server refuses a request on node n with.
Refusal(t, n) ==
    Err(IF TypeOf(t, n) = "none" THEN "NO_SUCH_FILE" ELSE "FAILURE", n)

\* A request of rm_rf() on node n.
Req(op, n) == [op |-> op, node |-> n]

\* An await of rm_rf() with the error swallowed: the call returns as if the
\* request had succeeded.
RmThrow_Swallowed(r, e) == [r EXCEPT !.pc = "return"]

\* An await of rm_rf() throws: no frame of the recursion catches, so every
\* pending rm_rf() rejects with e, the outermost one included.
RmThrow(r, e) ==
    [r EXCEPT !.pc = "done", !.result = "rejected", !.err = e]

\* The adapter method of a request rejects with e, the first time.
RmFailed(r, e) ==
    RmThrow([r EXCEPT !.firstErr = IF @ = NoErr THEN e ELSE @], e)

\* rm_rf(n) is entered: this.stat(n) is called, whose guard rejects without
\* this.sftp.
RmEnter(r, n, present) ==
    LET c == [r EXCEPT !.cur = n]
    IN  IF FsGuard("stat", present) = "NotConnected"
        THEN RmFailed(c, Err("NOT_CONNECTED", n))
        ELSE [c EXCEPT !.pc = "awaitStat"]

\* A removal, this.rm(n) or this.rmdir(n), is called, whose guard rejects
\* without this.sftp.
RmRemove(r, op, n, present) ==
    LET c == [r EXCEPT !.cur = n, !.log = Append(@, Req(op, n))]
    IN  IF FsGuard(op, present) = "NotConnected"
        THEN RmFailed(c, Err("NOT_CONNECTED", n))
        ELSE [c EXCEPT !.pc = IF op = "rm" THEN "awaitRm" ELSE "awaitRmdir"]

\* The entries the for loop of rm_rf() leaves out: all of the listing.
RmSkipped_All(list) == list

\* The entries the for loop of rm_rf() leaves out: none.
RmSkipped(list) == {}

\* The children the loop of the innermost pending rm_rf() can take next.
RmChoices(r) ==
    IF r.pc = "return" /\ r.stack # <<>> /\ r.stack[Len(r.stack)].todo # {}
    THEN r.stack[Len(r.stack)].todo
    ELSE {<<>>}

\* An rm_rf() returned: the outermost one resolves the promise; else the for
\* loop of the rm_rf() that called it goes on with child c, or, the listing
\* done, calls this.rmdir() on its directory.
RmResume(r, c, present) ==
    IF r.pc # "return" THEN r
    ELSE IF r.stack = <<>> THEN [r EXCEPT !.pc = "done", !.result = "resolved"]
    ELSE LET k == Len(r.stack)
             top == r.stack[k]
         IN  IF top.todo = {}
             THEN RmRemove(r, "rmdir", top.path, present)
             ELSE RmEnter([r EXCEPT !.stack[k].todo = @ \ {c}], c, present)

\* The caller calls rm_rf(path).
RmrfCall(n) ==
    /\ runs < MaxRuns
    /\ NoneRunning
    /\ runs' = runs + 1
    /\ lastOp' = "rm_rf"
    /\ again' = FALSE
    /\ tree0' = tree
    /\ rm' = RmEnter([IdleRm EXCEPT !.path = n], n, sftp)
    /\ mk' = [p \in Procs |-> IdleMk]
    /\ UNCHANGED <<lifeVars, tree, xfer, kb>>

\* The callback of the sftp.stat() of rm_rf(): a directory has this.ls()
\* called on it, anything else this.rm().
RmStatReply(reply) ==
    /\ rm.pc = "awaitStat"
    /\ reply = "tree" => sock = "ready"
    /\ LET n == rm.cur
       IN  rm' = IF reply # "tree" THEN RmFailed(rm, Err(reply, n))
                 ELSE IF TypeOf(tree, n) = "none" THEN RmFailed(rm, Refusal(tree, n))
                 ELSE IF TypeOf(tree, n) # "dir" THEN RmRemove(rm, "rm", n, sftp)
                 ELSE IF FsGuard("ls", sftp) = "NotConnected"
                      THEN RmFailed(rm, Err("NOT_CONNECTED", n))
                      ELSE [rm EXCEPT !.pc = "awaitLs"]
    /\ UNCHANGED <<lifeVars, tree, tree0, mk, lastOp, again, runs, xfer, kb>>

\* The callback of the sftp.readdir() of rm_rf(): the for loop starts on the
\* entries of the listing, in the order of the listing.
RmLsReply(reply) ==
    /\ rm.pc = "awaitLs"
    /\ reply = "tree" => sock = "ready"
    /\ LET n == rm.cur
           list == Children(tree, n)
           r == [rm EXCEPT !.pc = "return",
                           !.stack = Append(@, [path |-> n,
                                                todo |-> list \ RmSkipped(list)])]
       IN  IF reply # "tree" THEN rm' = RmFailed(rm, Err(reply, n))
           ELSE \E c \in RmChoices(r) : rm' = RmResume(r, c, sftp)
    /\ UNCHANGED <<lifeVars, tree, tree0, mk, lastOp, again, runs, xfer, kb>>

\* The callback of the sftp.unlink() or sftp.rmdir() of rm_rf(): the node is
\* gone and the rm_rf() that asked returns, or the request failed.
RmRemoveReply(reply) ==
    /\ rm.pc \in {"awaitRm", "awaitRmdir"}
    /\ reply = "tree" => sock = "ready"
    /\ LET n == rm.cur
           ok == IF rm.pc = "awaitRm" THEN RemoteUnlinkOk(tree, n)
                                      ELSE RemoteRmdirOk(tree, n)
           e == IF reply = "tree" THEN Refusal(tree, n) ELSE Err(reply, n)
           f == RmFailed(rm, e)
           r == IF reply = "tree" /\ ok
                THEN [rm EXCEPT !.pc = "return",
                                !.stack = IF rm.pc = "awaitRmdir"
                                          THEN SubSeq(@, 1, Len(@) - 1) ELSE @]
                ELSE f
       IN  /\ tree' = IF reply = "tree" /\ ok
                      THEN [tree EXCEPT ![n] = "none"] ELSE tree
           /\ \E c \in RmChoices(r) : rm' = RmResume(r, c, sftp)
    /\ UNCHANGED <<lifeVars, tree0, mk, lastOp, again, runs, xfer, kb>>

\* The Device after a connect() that resolved, with nothing called since.
Connected ==
    /\ sftp = TRUE
    /\ homeAttr = 1
    /\ isConnecting = FALSE
    /\ isConnected = TRUE
    /\ sock = "ready"
    /\ pc = "idle"
    /\ kaTimer = FALSE
    /\ connectResult = "resolved"
    /\ connectErr = "none"
    /\ origErr = "none"
    /\ settles = 1
    /\ attempts = 1
    /\ discs = 0
    /\ willCount = 1
    /\ connCount = 1
    /\ discCount = 0
    /\ userDisc = 0
    /\ call = NoCall

\* A run of recursive operations starts on a Device that was never connected
\* or on one that connect() has connected, with some tree on the brick.
FsInit ==
    \/ Init
    \/ /\ Connected
       /\ tree \in InitialTrees
       /\ tree0 = tree
       /\ mk = [p \in Procs |-> IdleMk]
       /\ rm = IdleRm
       /\ lastOp = "none"
       /\ again = FALSE
       /\ runs = 0
       /\ xfer = IdleXfer
       /\ kb = IdleKb

FsNext ==
    \/ \E d \in DirPaths : MkdirpCall(1, d)
    \/ \E r \in {"tree"} \cup FsFaults : MkdirpStatReply(1, r)
    \/ \E r \in {"tree"} \cup FsFaults : MkdirpMkdirReply(1, r)
    \/ \E n \in Nodes : RmrfCall(n)
    \/ \E r \in {"tree"} \cup FsFaults : RmStatReply(r)
    \/ \E r \in {"tree"} \cup FsFaults : RmLsReply(r)
    \/ \E r \in {"tree"} \cup FsFaults : RmRemoveReply(r)
    \/ ClientClose

FsSpec == FsInit /\ [][FsNext]_vars

----------------------------------------------------------------------------
\* get() and put() with a progress callback.

\* The step callback with the percentage cut off instead of rounded.
Percent_Floor(transferred, total) == (100 * transferred) \div total

\* Math.round(transferred / total * 100) for 0 <= transferred <= total and
\* total > 0: the nearest integer, a half rounded up.
Percent(transferred, total) == (200 * transferred + total) \div (2 * total)

\* The caller calls get() or put() for a file of total bytes, with or
\* without reportPercentage: without this.sftp the promise rejects, else
\* fastGet() or fastPut() starts the transfer.
XferCall(op, total, cb) ==
    /\ xfer.pc = "idle"
    /\ xfer' = IF FsGuard(op, sftp) = "NotConnected"
               THEN [IdleXfer EXCEPT !.pc = "done", !.op = op, !.total = total,
                                     !.hasCallback = cb, !.result = "rejected"]
               ELSE [IdleXfer EXCEPT !.pc = "transferring", !.op = op,
                                     !.total = total, !.hasCallback = cb]
    /\ UNCHANGED <<lifeVars, treeVars, kb>>

\* A chunk of n bytes is through: the step callback runs and, given
\* reportPercentage, calls it with the rounded percentage.
XferStep(n) ==
    /\ xfer.pc = "transferring"
    /\ sock = "ready"
    /\ xfer.transferred + n <= xfer.total
    /\ LET t == xfer.transferred + n
       IN  xfer' = [xfer EXCEPT !.transferred = t,
                                !.steps = Append(@, t),
                                !.reports = IF xfer.hasCallback
                                            THEN Append(@, Percent(t, xfer.total))
                                            ELSE @]
    /\ UNCHANGED <<lifeVars, treeVars, kb>>

\* The callback of fastGet() or fastPut(): without error once every byte is
\* through, with an error at any time.
XferCallback(reply) ==
    /\ xfer.pc = "transferring"
    /\ reply = "ok" => (sock = "ready" /\ xfer.transferred = xfer.total)
    /\ xfer' = [xfer EXCEPT !.pc = "done", !.result = FsSettle(reply)]
    /\ UNCHANGED <<lifeVars, treeVars, kb>>

XferInit == Connected /\ OpsIdle

XferNext ==
    \/ \E op \in {"get", "put"}, total \in 0..MaxBytes, cb \in BOOLEAN :
           XferCall(op, total, cb)
    \/ \E n \in 1..MaxBytes : XferStep(n)
    \/ \E r \in {"ok", "error"} : XferCallback(r)
    \/ ClientClose

XferSpec == XferInit /\ [][XferNext]_vars

----------------------------------------------------------------------------
\* The 'keyboard-interactive' handler.

\* The prompts of a challenge and what the user does with an input box: type
\* a text, accept it empty, or cancel it (showInputBox() gives undefined).
Prompts == [prompt : {"Password: ", "Code: "}, echo : BOOLEAN]
Choices == {"secret", "", "undefined"}

\* The answer pushed as it comes from the input box.
OrEmpty_Raw(choice) == choice

\* choice || '': undefined and the empty string give the empty string.
OrEmpty(choice) == IF choice \in {"undefined", ""} THEN "" ELSE choice

\* The head of the for loop of the handler: with a prompt left its input box
\* is shown, masked when the prompt does not echo; else finish(answers) is
\* called.
KbLoop(k) ==
    IF Len(k.answers) < Len(k.prompts)
    THEN LET p == k.prompts[Len(k.answers) + 1]
         IN  [k EXCEPT !.pc = "awaitInput",
                       !.shown = Append(@, [prompt |-> p.prompt,
                                            password |-> ~p.echo])]
    ELSE [k EXCEPT !.pc = "done", !.finishCalls = @ + 1, !.finishArg = k.answers]

\* The client emits 'keyboard-interactive' with the prompts of a challenge.
KbChallenge(prompts) ==
    /\ kb.pc = "idle"
    /\ kb' = KbLoop([IdleKb EXCEPT !.prompts = prompts])
    /\ UNCHANGED <<lifeVars, treeVars, xfer>>

\* The input box closes with the user's choice: the answer is pushed and
\* the loop goes on.
KbAnswer(choice) ==
    /\ kb.pc = "awaitInput"
    /\ kb' = KbLoop([kb EXCEPT !.choices = Append(@, choice),
                               !.answers = Append(@, OrEmpty(choice))])
    /\ UNCHANGED <<lifeVars, treeVars, xfer>>

KbNext ==
    \/ \E prompts \in SeqsUpTo(Prompts, MaxPrompts) : KbChallenge(prompts)
    \/ \E choice \in Choices : KbAnswer(choice)

KbSpec == Init /\ [][KbNext]_vars

----------------------------------------------------------------------------
\* mkdir_p() calls that run at the same time on one session.

\* The paths of the concurrent calls: absolute, without empty components.
ConcPaths == {<<"">> \o n : n \in Nodes}

\* A caller calls mkdir_p(dirPath) without waiting for the calls of the
\* others: the requests of the calls share the SFTP session and interleave
\* at every await.
MkdirpStart(p, d) ==
    /\ mk[p].pc = "idle"
    /\ LET m == [IdleMk EXCEPT !.dirPath = d]
       IN  mk' = [mk EXCEPT ![p] =
                     IF ~IsAbsolute(d)
                     THEN MkReject(m, Err("NOT_ABSOLUTE", <<>>))
                     ELSE MkLoop([m EXCEPT !.names = Shift(d)], sftp)]
    /\ UNCHANGED <<lifeVars, tree, tree0, rm, lastOp, again, runs, xfer, kb>>

\* The calls start on a connected Device, on a tree of directories only;
\* the server answers every request by what the tree holds.
ConcInit ==
    /\ Connected
    /\ tree \in {TreeOf({}), TreeOf({<< <<"a">>, "dir" >>})}
    /\ tree0 = tree
    /\ mk = [p \in Procs |-> IdleMk]
    /\ rm = IdleRm
    /\ lastOp = "none"
    /\ again = FALSE
    /\ runs = 0
    /\ xfer = IdleXfer
    /\ kb = IdleKb

ConcNext ==
    \/ \E p \in Procs, d \in ConcPaths : MkdirpStart(p, d)
    \/ \E p \in Procs : MkdirpStatReply(p, "tree")
    \/ \E p \in Procs : MkdirpMkdirReply(p, "tree")

ConcSpec == ConcInit /\ [][ConcNext]_vars

----------------------------------------------------------------------------
\* C1: in every reachable state the SFTP sub-session and the home-directory
\* snapshot are both present if and only if the Device is connected.
C1_SftpAndAttrIffConnected == (sftp /\ homeAttr # 0) <=> isConnected

\* C2: onDidDisconnect fires at most once for a connect() that failed (the
\* caller not calling disconnect() itself) and at most once for a connect()
\* that succeeded and was ended by one disconnect() or by the transport.
C2_DisconnectedFiresOnce ==
    /\ (connectResult = "rejected" /\ userDisc = 0) => discCount <= 1
    /\ (connectResult = "resolved" /\ userDisc <= 1) => discCount <= 1

\* C3: once connect() has rejected, isConnecting and isConnected are false
\* and the rejection value is the error that caused the failure.
C3_RejectedIsIdle ==
    connectResult = "rejected" =>
        /\ ~isConnecting
        /\ ~isConnected
        /\ connectErr # "none"
        /\ connectErr = origErr

\* C4: once connect() has rejected, the disconnect cleanup has run (the SFTP
\* session is gone, the transport is ended, onDidDisconnect has fired) and
\* isConnected is false.
C4_CleanupBeforeRejection ==
    connectResult = "rejected" =>
        /\ discCount >= 1
        /\ ~sftp
        /\ sock \notin {"connecting", "ready"}
        /\ ~isConnected

\* C5: every disconnect() of the caller leaves the session idle (isConnecting
\* and isConnected false, no SFTP session, no cached home-directory
\* attributes) in a state a second disconnect() would not change.
C5_DisconnectLeavesIdle ==
    [][userDisc' = userDisc + 1 =>
        /\ ~isConnecting'
        /\ ~isConnected'
        /\ ~sftp'
        /\ homeAttr' = 0
        /\ ClientEnd(sock') = sock']_vars

\* C6: reading homeDirectoryAttr fails with 'Not connected' in every state
\* that is not connected and returns the snapshot in every connected state.
C6_AttrOnlyWhileConnected ==
    IF isConnected
    THEN homeDirectoryAttr = "attributes"
    ELSE homeDirectoryAttr = "NotConnected"

\* C7: a pending connect() eventually settles, and its promise is settled at
\* most once.
C7_ConnectSettlesOnce ==
    /\ (connectResult = "pending") ~> (connectResult \in {"resolved", "rejected"})
    /\ [](settles <= 1)

\* The moves of the state machine idle -> connecting -> connected -> idle,
\* connecting -> idle.
AllowedMoves ==
    {<<"idle", "connecting">>, <<"connecting", "connected">>,
     <<"connected", "idle">>, <<"connecting", "idle">>}

\* C8: every onWillConnect is eventually followed by onDidConnect or
\* onDidDisconnect; onDidConnect fires only inside a connect() call that has
\* fired onWillConnect and has fired neither event yet; and the state shown by
\* isConnecting/isConnected only moves idle -> connecting -> connected ->
\* idle or connecting -> idle.
C8_WillConnectIsFollowed ==
    /\ (willCount = 1 /\ connCount = 0 /\ discCount = 0)
           ~> (connCount > 0 \/ discCount > 0)
    /\ [][connCount' > connCount =>
            (willCount = 1 /\ connCount = 0 /\ connectResult = "pending")]_vars
    /\ [][State' # State => <<State, State'>> \in AllowedMoves]_vars

\* C8 witness: a handshake that failed with an 'error', followed by the
\* 'close' that fired the only onDidDisconnect of the attempt.
C8_Witness ==
    /\ willCount = 1
    /\ connCount = 0
    /\ discCount = 1
    /\ userDisc = 0
    /\ connectResult = "rejected"
    /\ connectErr \in ClientErrors

\* C9: a filesystem adapter call made without an SFTP sub-session rejects with
\* 'Not connected', issues no SFTP request, and leaves the session as it was.
C9_FsCallNotConnected ==
    /\ []((call.op \in FsOps /\ call.idle) =>
            (call.outcome = "NotConnected" /\ ~call.issued))
    /\ [][(call.outcome # "pending" /\ call' # call /\ call'.op \in FsOps /\ ~sftp)
            => (call'.outcome = "NotConnected" /\ ~call'.issued
                /\ UNCHANGED <<session, promise, events>>)]_vars

\* C9 witness: put() called while a connect() is still in its handshake.
C9_Witness ==
    /\ call.op = "put"
    /\ call.idle
    /\ call.outcome = "NotConnected"
    /\ pc = "awaitClient"

\* C10 as claimed: a channel call made while the transport is not ready is
\* rejected by the Device and nothing is handed to the client.
C10_ChanCallNotHandedOver ==
    (call.op \in ChanOps /\ call.idle) =>
        (call.outcome = "rejected" /\ ~call.issued)

\* C10 amended: a channel call made while the transport is not ready is
\* handed to the client unchecked, never resolves (it rejects with the error
\* the client throws or reports), and leaves the session as it was.
C10_ChanCallFailsAtClient ==
    /\ []((call.op \in ChanOps /\ call.idle) =>
            (call.issued /\ call.outcome \in {"pending", "rejected"}))
    /\ [][(call.outcome # "pending" /\ call' # call /\ call'.op \in ChanOps)
            => UNCHANGED <<session, promise, events>>]_vars

\* C10 witness: exec() handed to a client that was never connected and
\* refused by it.
C10_Witness ==
    /\ call.op = "exec"
    /\ call.idle
    /\ call.issued
    /\ call.outcome = "rejected"
    /\ attempts = 0

----------------------------------------------------------------------------
\* The names of path string d, a split('/') result: its elements after the
\* first that are not empty; and the prefix that ends at element i + 1.
IsName(x) == x # ""
Segments(d) == SelectSeq(Tail(d), IsName)
PrefixAt(d, i) == SelectSeq(SubSeq(d, 2, i + 1), IsName)
StartsWithSlash(d) == Len(d) >= 2 /\ d[1] = ""
Last(q) == q[Len(q)]

\* The codes of the errors that come from the connection or the server and
\* not from what the tree holds.
OutsideCodes == FsFaults \cup {"NOT_CONNECTED"}

\* C11: when mkdir_p(P) has resolved and mkdir_p(P) is called again right
\* after it, the second call calls mkdir for no prefix, leaves the tree as
\* the first call left it, and resolves unless the connection or the server
\* fails one of its stat requests.
C11_SecondCallIdempotent ==
    again =>
        /\ mk[1].mkdirLog = <<>>
        /\ tree = tree0
        /\ mk[1].pc = "done" =>
              \/ mk[1].result = "resolved"
              \/ /\ mk[1].err.code \in OutsideCodes
                 /\ mk[1].err = mk[1].statErr

\* C11 witness: the second call of mkdir_p("/a/a/a") resolved, on directories
\* that the first call made.
C11_Witness ==
    /\ again
    /\ mk[1].pc = "done"
    /\ mk[1].result = "resolved"
    /\ mk[1].dirPath = <<"", "a", "a", "a">>
    /\ Len(mk[1].statLog) = 3

Conflicts ==
    {n \in Nodes : /\ StartsWithSlash(mk[1].dirPath)
                   /\ \E i \in 1..(Len(mk[1].dirPath) - 1) :
                          n = PrefixAt(mk[1].dirPath, i)
                   /\ TypeOf(tree0, n) \in {"file", "link"}}

\* C13: when a prefix of the path exists and is no directory, mkdir_p()
\* calls mkdir neither for that prefix nor for a longer one, and it rejects:
\* with the error that names the prefix, unless the connection or the server
\* failed a stat request first.
C13_NotADirectoryRejects ==
    \A n \in Conflicts :
        /\ \A i \in 1..Len(mk[1].mkdirLog) : ~IsUnder(mk[1].mkdirLog[i], n)
        /\ tree[n] = tree0[n]
        /\ mk[1].pc = "done" =>
              /\ mk[1].result = "rejected"
              /\ \/ mk[1].err = Err("NOT_A_DIRECTORY", n)
                 \/ /\ mk[1].err.code \in OutsideCodes
                    /\ mk[1].err = mk[1].statErr

\* C13 witness: mkdir_p("/a/a/a") found /a a directory and /a/a a symbolic
\* link to a file, and rejected naming /a/a.
C13_Witness ==
    /\ mk[1].pc = "done"
    /\ mk[1].dirPath = <<"", "a", "a", "a">>
    /\ tree0[<<"a", "a">>] = "link"
    /\ mk[1].err = Err("NOT_A_DIRECTORY", <<"a", "a">>)
    /\ mk[1].statLog = << <<"a">>, <<"a", "a">> >>

\* C14: mkdir_p() called with a path that does not start with '/' rejects
\* with the invalid-argument error without calling stat or mkdir, connected
\* or not.
C14_RelativePathRejected ==
    (mk[1].pc # "idle" /\ ~StartsWithSlash(mk[1].dirPath)) =>
        /\ mk[1].pc = "done"
        /\ mk[1].result = "rejected"
        /\ mk[1].err.code = "NOT_ABSOLUTE"
        /\ mk[1].statLog = <<>>
        /\ mk[1].mkdirLog = <<>>
        /\ tree = tree0

\* C14 witness: mkdir_p("a/a") rejected on a connected Device.
C14_Witness ==
    /\ mk[1].pc = "done"
    /\ mk[1].dirPath = <<"a", "a">>
    /\ mk[1].result = "rejected"
    /\ sftp
    /\ sock = "ready"

\* C15: when the stat of a prefix fails with another error than NO_SUCH_FILE,
\* mkdir_p() rejects with that error as it is, calls no mkdir on that visit
\* and visits no further prefix.
C15_StatErrorPropagates ==
    mk[1].statErr # NoErr =>
        /\ mk[1].pc = "done"
        /\ mk[1].result = "rejected"
        /\ mk[1].err = mk[1].statErr
        /\ mk[1].statLog # <<>>
        /\ Last(mk[1].statLog) = mk[1].statErr.node
        /\ Len(mk[1].mkdirLog) < Len(mk[1].statLog)
        /\ mk[1].mkdirLog = mk[1].noSuch

\* C15 witness: mkdir_p("/a/a") made /a, then the stat of /a/a was denied.
C15_Witness ==
    /\ mk[1].statErr = Err("PERMISSION_DENIED", <<"a", "a">>)
    /\ mk[1].mkdirLog = << <<"a">> >>
    /\ mk[1].result = "rejected"

\* The nodes at or below the path of rm_rf() when it was called.
Doomed == {n \in Nodes : IsUnder(n, rm.path) /\ tree0[n] # "none"}

\* C16: rm_rf(P) asks rmdir of a directory only when nothing is left in it,
\* removes a node only after everything below it, unlinks files and symbolic
\* links and rmdirs directories, and when it resolves every node that was at
\* or below P has been removed by one request and the rest of the tree is as
\* it was.
C16_RmrfRemovesAll ==
    /\ rm.pc = "awaitRmdir" => Children(tree, rm.cur) = {}
    /\ \A i \in 1..Len(rm.log) :
          /\ rm.log[i].node \in Doomed
          /\ rm.log[i].op = (IF tree0[rm.log[i].node] = "dir" THEN "rmdir" ELSE "rm")
          /\ \A j \in 1..Len(rm.log) :
                (i < j) => ~IsUnder(rm.log[j].node, rm.log[i].node)
    /\ (rm.pc = "done" /\ rm.result = "resolved") =>
          /\ \A n \in Nodes : tree[n] = (IF IsUnder(n, rm.path) THEN "none" ELSE tree0[n])
          /\ Doomed # {}
          /\ {rm.log[i].node : i \in 1..Len(rm.log)} = Doomed
          /\ Len(rm.log) = Cardinality(Doomed)

\* C16 witness: rm_rf("/a") resolved on the directory /a that held a file and
\* the directory /a/b, which held a file and a symbolic link.
C16_Witness ==
    /\ rm.pc = "done"
    /\ rm.result = "resolved"
    /\ rm.path = <<"a">>
    /\ Cardinality(Doomed) = 5
    /\ Last(rm.log) = Req("rmdir", <<"a">>)

\* C17: once a request of rm_rf() has failed, rm_rf() has rejected with the
\* error of that request and is over, with no removal asked after the one
\* that failed; what was removed before is still gone and the rest of the
\* tree is as it was.
C17_RmrfStopsAtFirstError ==
    rm.firstErr # NoErr =>
        /\ rm.pc = "done"
        /\ rm.result = "rejected"
        /\ rm.err = rm.firstErr
        /\ \A i \in 1..Len(rm.log) :
              \/ tree[rm.log[i].node] = "none"
              \/ i = Len(rm.log) /\ rm.firstErr.node = rm.log[i].node
        /\ \A n \in Nodes :
              tree[n] = (IF \E i \in 1..Len(rm.log) :
                               rm.log[i].node = n /\ rm.firstErr.node # n
                         THEN "none" ELSE tree0[n])

\* C17 witness: rm_rf("/a") removed /a/a, then the unlink of a node in /a/b
\* was denied, with the other node of /a/b, /a/b and /a still there.
C17_Witness ==
    /\ rm.path = <<"a">>
    /\ rm.firstErr.code = "PERMISSION_DENIED"
    /\ Len(rm.firstErr.node) = 3
    /\ Len(rm.log) = 2
    /\ rm.log[1] = Req("rm", <<"a", "a">>)
    /\ Cardinality({n \in Nodes : tree[n] # "none"}) = 4

\* C18: the keepalive-reset interval of getSftp() runs only while the
\* handshake of the SFTP session is in flight on a live transport: not after
\* the callback of client.sftp() came, nor after the transport closed or
\* disconnect() ran during the negotiation.
C18_TimerOnlyWhileOpening == kaTimer => (pc = "awaitSftp" /\ sock = "ready")

\* C19: every value given to reportPercentage is the integer nearest to
\* transferred / total * 100, between 0 and 100; the values never decrease;
\* there is one for every chunk; and the last one of a transfer that resolved
\* is 100.
C19_ProgressIsRoundedPercent ==
    LET N == xfer.total
        r == xfer.reports
    IN  /\ Len(r) = (IF xfer.hasCallback THEN Len(xfer.steps) ELSE 0)
        /\ \A i \in 1..Len(r) :
              /\ r[i] \in 0..100
              /\ 2 * N * r[i] <= 200 * xfer.steps[i] + N
              /\ 200 * xfer.steps[i] + N < 2 * N * (r[i] + 1)
              /\ i > 1 => r[i - 1] <= r[i]
        /\ (xfer.result = "resolved" /\ r # <<>>) => Last(r) = 100
        /\ (xfer.result = "resolved" /\ xfer.hasCallback /\ N > 0) => r # <<>>

\* C19 witness: a put() of 8 bytes in three chunks resolved after reporting
\* 13, 63 and 100.
C19_Witness ==
    /\ xfer.op = "put"
    /\ xfer.result = "resolved"
    /\ xfer.total = 8
    /\ xfer.reports = <<13, 63, 100>>

\* C20: the input boxes shown are those of the prompts, in order, masked for
\* the prompts without echo, each one shown only when all before it are
\* answered; finish is called once, when the last prompt is answered and not
\* before, with one response per prompt in order, the text typed or the empty
\* string for a cancelled box.
C20_AnswersInOrderFinishOnce ==
    /\ Len(kb.shown) <= Len(kb.prompts)
    /\ \A i \in 1..Len(kb.shown) :
          kb.shown[i] = [prompt |-> kb.prompts[i].prompt,
                         password |-> ~kb.prompts[i].echo]
    /\ kb.pc = "awaitInput" => Len(kb.shown) = Len(kb.choices) + 1
    /\ kb.pc = "done" => Len(kb.shown) = Len(kb.choices)
    /\ kb.finishCalls = (IF kb.pc = "done" THEN 1 ELSE 0)
    /\ kb.pc = "done" =>
          /\ Len(kb.choices) = Len(kb.prompts)
          /\ Len(kb.finishArg) = Len(kb.prompts)
          /\ \A i \in 1..Len(kb.prompts) :
                kb.finishArg[i] = (IF kb.choices[i] = "undefined" THEN ""
                                   ELSE kb.choices[i])

\* C20 witness: a challenge of three prompts, the second one cancelled, was
\* answered to the end.
C20_Witness ==
    /\ kb.pc = "done"
    /\ Len(kb.prompts) = 3
    /\ kb.choices = <<"secret", "undefined", "secret">>
    /\ kb.finishArg = <<"secret", "", "secret">>

\* The prefixes that the paths of the two mkdir_p() calls have in common and
\* that did not exist when the calls were made.
SharedMissing ==
    {n \in Nodes : /\ IsUnder(Segments(mk[1].dirPath), n)
                   /\ IsUnder(Segments(mk[2].dirPath), n)
                   /\ TypeOf(tree0, n) = "none"}

\* C21: two mkdir_p() calls on one connected session, on absolute paths with
\* a common prefix that does not exist, both resolve whatever the order of
\* their stat and mkdir requests, and every prefix of both paths is a
\* directory afterwards.
C21_ConcurrentCallsResolve ==
    (mk[1].pc = "done" /\ mk[2].pc = "done" /\ SharedMissing # {}) =>
        /\ mk[1].result = "resolved"
        /\ mk[2].result = "resolved"
        /\ \A p \in Procs : \A i \in 1..Len(Segments(mk[p].dirPath)) :
               TypeOf(tree, SubSeq(Segments(mk[p].dirPath), 1, i)) = "dir"

====
